---- MODULE Spec2Model ----
(***************************************************************************)
(* StrikeSense audio cue generation: scripts/generate_tts_audio.py (engine *)
(* backend, pyttsx3) and scripts/generate_tts_audio_simple.py (command     *)
(* backend, macOS `say`).  One run of main(): the batch over the catalogue *)
(* audio_cues, then the quality probe, each cue going through              *)
(* generate_audio_file step by step.  Two smaller parts stand beside it:   *)
(* the voice selection of TTSAudioGenerator.__init__ (VoiceSpec) and       *)
(* scripts/download_models.py, the model downloader (DownloadSpec).        *)
(*                                                                         *)
(* The synthesis backend, the decoder, the file system and the audio       *)
(* library's failures are the environment: their outcomes are chosen       *)
(* nondeterministically.  The audio library's arithmetic (clip length in   *)
(* ms, slicing, rate conversion) is computed on frame counts as the        *)
(* library computes it.                                                    *)
(***************************************************************************)
EXTENDS Integers, Sequences, FiniteSets, TLC

VARIABLES
    backend,     \* "engine" (generate_tts_audio.py) or "command" (generate_tts_audio_simple.py)
    testOnly,    \* args.test_only
    native,      \* what this run's backend renders: [frames, rate, ch, container]
    dir0,        \* the output directory as main() found it
    phase,       \* position in main(): "cues", "probe", "exit0", "exit1"
    idx,         \* number of catalogue entries the for loop has taken
    cur,         \* key of the cue generate_audio_file is working on (0: none)
    stage,       \* position inside generate_audio_file
    temp,        \* the cue's temporary file: "absent", "empty", "wav", "other", "garbage"
    audio,       \* the local variable audio
    tries,       \* decode calls made for the current cue
    outdir,      \* the output directory: key -> file
    log,         \* the lines printed so far
    attempts,    \* keys generate_audio_file was called with, in call order
    fault,       \* key -> the environment failure that hit the cue, "none" if none did
    voices,      \* engine.getProperty('voices'): the voices, as [id, name]
    voice,       \* the engine's 'voice' property
    modelFiles,  \* download_models.py: model -> the file under assets/models
    dlStage,     \* download_models.py: position in main()
    dlIdx,       \* download_models.py: number of MODELS entries the for loop has taken
    success_count, \* download_models.py: main()'s success_count
    obtained     \* model -> the file as it was when the model was counted, "none" if it was not

genVars == <<backend, testOnly, native, dir0, phase, idx, cur, stage, temp, audio, tries,
             outdir, log, attempts, fault>>
voiceVars == <<voices, voice>>
dlVars == <<modelFiles, dlStage, dlIdx, success_count, obtained>>
vars == <<genVars, voiceVars, dlVars>>

(***************************************************************************)
(* Bounds of the model.                                                    *)
(***************************************************************************)
\* Cues of one run hit by an environment failure (backend, decoder, library,
\* export).  A failing unlink ends the run and is not counted.
MaxFaults == 1

\* Half-millisecond steps taken to either side of each duration the code
\* compares a clip with (the limits, the fade threshold) when the rendered
\* clip's length is chosen.
MaxOffset == 2

\* Voices the engine reports.
MaxVoices == 3

(***************************************************************************)
(* Program constants.                                                      *)
(***************************************************************************)
TargetRate == 44100
FadeThresholdMs == 200
FadeMs == 50
ProbeLimitMs == 3000

\* audio_cues with duration_limit * 1000 as the code evaluates it (the float
\* products 1.0*1000, 1.5*1000, 0.8*1000, 0.5*1000 are these exact integers).
audio_cues ==
    << [text |-> "Round start",    filename |-> "round_start",    limitMs |-> 1000],
       [text |-> "Round end",      filename |-> "round_end",      limitMs |-> 1000],
       [text |-> "Timer complete", filename |-> "timer_complete", limitMs |-> 1500],
       [text |-> "Work period",    filename |-> "work_start",     limitMs |-> 1000],
       [text |-> "Rest period",    filename |-> "rest_start",     limitMs |-> 1000],
       [text |-> "Timer paused",   filename |-> "pause",          limitMs |-> 800],
       [text |-> "Timer resumed",  filename |-> "resume",         limitMs |-> 800],
       [text |-> "Warning",        filename |-> "warning",        limitMs |-> 800],
       [text |-> "Countdown",      filename |-> "countdown",      limitMs |-> 500] >>

NumCues == Len(audio_cues)

\* test_audio_quality's cue: the key after the catalogue's.
test_audio ==
    [text |-> "StrikeSense timer audio test. All systems working correctly.",
     filename |-> "test_audio", limitMs |-> ProbeLimitMs]

ProbeKey == NumCues + 1
Keys == 1..ProbeKey
CueOf(k) == IF k = ProbeKey THEN test_audio ELSE audio_cues[k]
LimitMs(k) == CueOf(k).limitMs

(***************************************************************************)
(* The audio library's arithmetic on frame counts.                         *)
(***************************************************************************)
Min(a, b) == IF a <= b THEN a ELSE b

RECURSIVE Gcd(_, _)
Gcd(a, b) == IF b = 0 THEN a ELSE Gcd(b, a % b)

\* round(n / d), ties to even (Python 3's round).
RoundHalfEven(n, d) ==
    LET q == n \div d
        r == n % d
    IN  IF 2 * r < d THEN q
        ELSE IF 2 * r > d THEN q + 1
        ELSE IF q % 2 = 0 THEN q ELSE q + 1

\* len(audio) is round(1000 * (frame_count / frame_rate)) in double precision.
\* For clips up to 3.6 s at 22050 and 44100 Hz that is RoundHalfEven of the
\* exact quotient; at 48000 Hz it differs for these frame counts, all of them
\* exact ties x.5 ms, where the double product falls just below or just above
\* the tie.
FloatBelowTie48k == {24072 + 96 * i : i \in 0..5} \cup {96168 + 192 * i : i \in 0..11}
FloatAboveTie48k == {96024 + 192 * i : i \in 0..11}

SegLen(a) ==
    LET exact == RoundHalfEven(1000 * a.frames, a.rate)
    IN  IF a.rate = 48000 /\ a.frames \in FloatBelowTie48k THEN exact - 1
        ELSE IF a.rate = 48000 /\ a.frames \in FloatAboveTie48k THEN exact + 1
        ELSE exact

\* AudioSegment._parse_position: int(ms * (frame_rate / 1000.0)).
ParsePosition(ms, rate) == (ms * rate) \div 1000

\* audio[:ms]: frames 0 .. _parse_position(min(ms, len(audio))).
SliceTo(a, ms) ==
    [a EXCEPT !.frames = Min(ParsePosition(Min(ms, SegLen(a)), a.rate), a.frames)]

\* audioop.ratecv with no carried state: frames produced from n frames.
RateCv(n, inrate, outrate) ==
    LET g == Gcd(inrate, outrate)
        i == inrate \div g
        o == outrate \div g
    IN  IF n = 0 THEN 0 ELSE ((n - 1) * o) \div i + 1


(***************************************************************************)
(* Bounded inputs: the clip a run's backend renders, the same for every    *)
(* cue of the run.  Lengths are in half milliseconds so that a length      *)
(* between two whole milliseconds occurs.                                  *)
(***************************************************************************)
Backends == {"engine", "command"}

\* The engine writes a WAV file or, on some platforms, another container
\* under the .wav name; `say -o x.aiff` writes AIFF.
Containers(b) == IF b = "engine" THEN {"wav", "other"} ELSE {"other"}

Clip(halfMs, rate, ch, c) ==
    [frames |-> (halfMs * rate) \div 2000, rate |-> rate, ch |-> ch, container |-> c]

\* Runs with environment failures: a 3.5 s stereo clip, above every limit,
\* and a 200 ms mono clip, below every limit and not above the fade threshold.
Natives(b) ==
    { Clip(7000, 48000, 2, c) : c \in Containers(b) } \cup
    { Clip(400, 22050, 1, c) : c \in Containers(b) }

\* Runs without failures: lengths around every duration the code compares
\* a clip with, 0.3 s and 3.5 s, in each format.
ComparedMs == {LimitMs(k) : k \in Keys} \cup {FadeThresholdMs}
ClipHalfMs == {2 * m + o : m \in ComparedMs, o \in (0 - MaxOffset)..MaxOffset} \cup {600, 7000}
ClipFormats == {<<22050, 1>>, <<44100, 1>>, <<44100, 2>>, <<48000, 2>>}
AllNatives(b) ==
    { Clip(h, f[1], f[2], c) : h \in ClipHalfMs, f \in ClipFormats, c \in Containers(b) }

(***************************************************************************)
(* Values.                                                                 *)
(***************************************************************************)
\* An audio buffer: its frames, rate and channels; whether normalize has set
\* its gain and over how many frames the peak was taken; whether it is faded.
NoAudio == [frames |-> 0, rate |-> 0, ch |-> 0, normalized |-> FALSE, peakOver |-> 0,
            faded |-> FALSE]

\* A file of the output directory.  kind: "absent"; "earlier" (left by an
\* earlier run); "partial" (opened for writing, not completely written);
\* "complete" (written and closed by this run's export).
NoFile      == [kind |-> "absent",  ch |-> 0, rate |-> 0, frames |-> 0, faded |-> FALSE]
EarlierFile == [kind |-> "earlier", ch |-> 0, rate |-> 0, frames |-> 0, faded |-> FALSE]
PartialFile == [kind |-> "partial", ch |-> 0, rate |-> 0, frames |-> 0, faded |-> FALSE]
WavFile(a)  == [kind |-> "complete", ch |-> a.ch, rate |-> a.rate, frames |-> a.frames,
                faded |-> a.faded]

FileMs(f) == SegLen(f)

PostStages == {"normalize", "truncate", "set_channels", "set_frame_rate", "fade"}

\* What a run never changes: its arguments, its backend, its starting directory.
cfgVars == <<backend, testOnly, native, dir0>>

(***************************************************************************)
(* main(): construction.  The output directory exists (mkdir) and holds    *)
(* the files an earlier run wrote for some of the cues.                    *)
(***************************************************************************)
EarlierKeys == {k \in Keys : k % 2 = 1}

\* MODELS of download_models.py, in the order of the dict.
MODELS == <<"movenet_lightning", "blazepose_lite", "blazepose_full">>
total_count == Len(MODELS)
ModelKeys == 1..total_count

\* The generator's state while it is not the program that runs.
GenRest ==
    /\ backend = "engine" /\ testOnly = FALSE
    /\ native = Clip(400, 22050, 1, "wav")
    /\ phase = "init" /\ idx = 0 /\ cur = 0 /\ stage = "idle"
    /\ temp = "absent" /\ audio = NoAudio /\ tries = 0
    /\ dir0 = [k \in Keys |-> NoFile] /\ outdir = dir0
    /\ log = <<>> /\ attempts = <<>> /\ fault = [k \in Keys |-> "none"]

\* The engine after __init__ where the voice list plays no part.
VoiceRest == voices = <<>> /\ voice = "default"

\* The downloader while it is not the program that runs.
DlRest ==
    /\ modelFiles = [m \in ModelKeys |-> "absent"]
    /\ dlStage = "rest" /\ dlIdx = 0 /\ success_count = 0
    /\ obtained = [m \in ModelKeys |-> "none"]

Start ==
    /\ backend \in Backends
    /\ testOnly \in BOOLEAN
    /\ phase = IF testOnly THEN "probe" ELSE "cues"
    /\ idx = 0
    /\ cur = 0
    /\ stage = "idle"
    /\ temp = "absent"
    /\ audio = NoAudio
    /\ tries = 0
    /\ dir0 = [k \in Keys |-> IF k \in EarlierKeys THEN EarlierFile ELSE NoFile]
    /\ outdir = dir0
    /\ log = <<>>
    /\ attempts = <<>>
    /\ fault = [k \in Keys |-> "none"]
    /\ VoiceRest /\ DlRest

Init == Start /\ native \in Natives(backend)

\* The start of a run in which nothing of the environment fails.
FaultFreeInit == Start /\ native \in AllNatives(backend)

\* print(...): the line and the cue it is about (0: the run as a whole).
Emit(k, line) == log' = Append(log, [key |-> k, line |-> line])

\* The entry of generate_audio_file(text, filename, duration_limit): the
\* "Generating" line and the NamedTemporaryFile(delete=False), which leaves an
\* empty file behind.
Enter(k) ==
    /\ cur' = k
    /\ stage' = "synthesize"
    /\ temp' = "empty"
    /\ audio' = NoAudio
    /\ tries' = 0
    /\ attempts' = Append(attempts, k)
    /\ Emit(k, "Generating")

\* for text, filename, duration_limit in audio_cues: generate_audio_file(...)
CallNextCue ==
    /\ phase = "cues" /\ stage = "idle" /\ idx < NumCues
    /\ idx' = idx + 1
    /\ Enter(idx + 1)
    /\ UNCHANGED <<voiceVars, dlVars, cfgVars, phase, outdir, fault>>

\* The loop is over: the closing report of generate_all_audio_cues, then
\* main() goes on to test_audio_quality().
BatchReport ==
    /\ phase = "cues" /\ stage = "idle" /\ idx = NumCues
    /\ phase' = "probe"
    /\ Emit(0, "AllGenerated")
    /\ UNCHANGED <<voiceVars, dlVars, cfgVars, idx, cur, stage, temp, audio, tries,
                   outdir, attempts, fault>>

\* test_audio_quality(): one more generate_audio_file call.
CallProbe ==
    /\ phase = "probe" /\ stage = "idle" /\ cur # ProbeKey
    /\ Enter(ProbeKey)
    /\ UNCHANGED <<voiceVars, dlVars, cfgVars, phase, idx, outdir, fault>>

\* test_audio_quality() returns and main() ends.
ProbeReport ==
    /\ phase = "probe" /\ stage = "idle" /\ cur = ProbeKey
    /\ phase' = "exit0"
    /\ Emit(0, "TestGenerated")
    /\ UNCHANGED <<voiceVars, dlVars, cfgVars, idx, cur, stage, temp, audio, tries,
                   outdir, attempts, fault>>


(***************************************************************************)
(* generate_audio_file, step by step.                                      *)
(***************************************************************************)

\* A path that leaves the try block early with a printed error: a return
\* or the except Exception handler.  Either way the finally block is next.
Fail(line) ==
    /\ Emit(cur, line)
    /\ stage' = "finally"

NumFaults == Cardinality({k \in Keys : fault[k] # "none"})

\* The environment fails the current cue in the way `kind`.
Inject(kind) ==
    /\ NumFaults < MaxFaults
    /\ fault' = [fault EXCEPT ![cur] = kind]

\* engine.save_to_file(); engine.runAndWait()  /  subprocess.run(['say', ...])
\* returning status 0, with the rendered clip in the temporary file.
SynthesizeOk ==
    /\ stage = "synthesize"
    /\ temp' = native.container
    /\ stage' = "check"
    /\ UNCHANGED <<voiceVars, dlVars, cfgVars, phase, idx, cur, audio, tries, outdir, log, attempts, fault>>

\* The backend returns normally (status 0) but leaves no usable file: it
\* removed the file, wrote nothing, or wrote something that is no audio.
SynthesizeBadFile ==
    /\ stage = "synthesize"
    /\ \E t \in {"absent", "empty", "garbage"} : temp' = t /\ Inject(t)
    /\ stage' = "check"
    /\ UNCHANGED <<voiceVars, dlVars, cfgVars, phase, idx, cur, audio, tries, outdir, log, attempts>>

\* The backend call raises (engine error; `say` cannot be started).
SynthesizeRaises ==
    /\ stage = "synthesize"
    /\ Inject("raise")
    /\ Fail("ErrorGenerating")
    /\ UNCHANGED <<voiceVars, dlVars, cfgVars, phase, idx, cur, temp, audio, tries, outdir, attempts>>

\* if result.returncode != 0: print error; return   (command backend only)
SayFails ==
    /\ stage = "synthesize" /\ backend = "command"
    /\ Inject("status")
    /\ temp' \in {"empty", "garbage"}
    /\ Fail("ErrorSay")
    /\ UNCHANGED <<voiceVars, dlVars, cfgVars, phase, idx, cur, audio, tries, outdir, attempts>>

\* if not os.path.exists(temp_path) or os.path.getsize(temp_path) == 0
FileMissingOrEmpty(t) == t \in {"absent", "empty"}

\* Mutant: a cue whose synthesis left nothing removes its output file.
CheckFile_ClearsOutput ==
    /\ stage = "check"
    /\ IF FileMissingOrEmpty(temp)
         THEN Fail("ErrorTTS") /\ outdir' = [outdir EXCEPT ![cur] = NoFile]
         ELSE stage' = "load" /\ UNCHANGED <<log, outdir>>
    /\ UNCHANGED <<voiceVars, dlVars, cfgVars, phase, idx, cur, temp, audio, tries, attempts, fault>>

CheckFile ==
    /\ stage = "check"
    /\ IF FileMissingOrEmpty(temp)
         THEN Fail("ErrorTTS")
         ELSE stage' = "load" /\ UNCHANGED log
    /\ UNCHANGED <<voiceVars, dlVars, cfgVars, phase, idx, cur, temp, audio, tries, outdir, attempts, fault>>

\* AudioSegment.from_wav (engine) / AudioSegment.from_file (command) on the
\* temporary file: does the first decode call succeed?
PrimaryDecodes(b, t) ==
    IF b = "engine" THEN t = "wav" ELSE t \in {"wav", "other"}

\* The nested try of the engine generator: AudioSegment.from_file(temp_path).
HasFallback(b) == b = "engine"
FallbackDecodes(t) == t \in {"wav", "other"}

Decoded == [frames |-> native.frames, rate |-> native.rate, ch |-> native.ch,
            normalized |-> FALSE, peakOver |-> 0, faded |-> FALSE]

\* Mutant: the temporary file is removed as soon as the first decode call
\* has succeeded.
Load_ThenUnlink ==
    /\ stage = "load"
    /\ tries' = tries + 1
    /\ IF PrimaryDecodes(backend, temp)
         THEN audio' = Decoded /\ stage' = "normalize" /\ temp' = "absent" /\ UNCHANGED log
         ELSE IF HasFallback(backend)
                THEN Emit(cur, "ErrorLoading") /\ stage' = "load_alt" /\ UNCHANGED <<audio, temp>>
                ELSE Fail("ErrorLoading") /\ UNCHANGED <<audio, temp>>
    /\ UNCHANGED <<voiceVars, dlVars, cfgVars, phase, idx, cur, outdir, attempts, fault>>

Load ==
    /\ stage = "load"
    /\ tries' = tries + 1
    /\ IF PrimaryDecodes(backend, temp)
         THEN audio' = Decoded /\ stage' = "normalize" /\ UNCHANGED log
         ELSE IF HasFallback(backend)
                THEN Emit(cur, "ErrorLoading") /\ stage' = "load_alt" /\ UNCHANGED audio
                ELSE Fail("ErrorLoading") /\ UNCHANGED audio
    /\ UNCHANGED <<voiceVars, dlVars, cfgVars, phase, idx, cur, temp, outdir, attempts, fault>>

LoadAlt ==
    /\ stage = "load_alt"
    /\ tries' = tries + 1
    /\ IF FallbackDecodes(temp)
         THEN audio' = Decoded /\ stage' = "normalize" /\ UNCHANGED log
         ELSE Fail("ErrorAlternative") /\ UNCHANGED audio
    /\ UNCHANGED <<voiceVars, dlVars, cfgVars, phase, idx, cur, temp, outdir, attempts, fault>>

\* audio = normalize(audio): a gain change computed from the peak over all
\* the frames the buffer has at that moment; the frames stay.
Normalize(a) == [a EXCEPT !.normalized = TRUE, !.peakOver = a.frames]

\* generate_audio_file(text, filename, duration_limit=None): no limit.
NoLimit == 0

\* Mutant: a clip exactly as long as the limit is sliced as well.
NeedsTruncation_AtLimit(a, limitMs) == limitMs # NoLimit /\ SegLen(a) >= limitMs

\* if duration_limit and len(audio) > duration_limit * 1000
NeedsTruncation(a, limitMs) == limitMs # NoLimit /\ SegLen(a) > limitMs

\* Mutant: the limit is compared but the clip is never sliced.
Truncate_NoSlice(a, limitMs) == a

\* audio = audio[:duration_limit * 1000]
Truncate(a, limitMs) == IF NeedsTruncation(a, limitMs) THEN SliceTo(a, limitMs) ELSE a

\* audio.set_channels(1)
SetChannels(a) == [a EXCEPT !.ch = 1]

\* Mutant: the frame rate is only ever raised, never lowered.
SetFrameRate_OnlyUp(a) ==
    IF a.rate >= TargetRate THEN a
    ELSE [a EXCEPT !.rate = TargetRate, !.frames = RateCv(a.frames, a.rate, TargetRate)]

\* audio.set_frame_rate(44100): nothing at that rate already, else ratecv.
SetFrameRate(a) ==
    IF a.rate = TargetRate THEN a
    ELSE [a EXCEPT !.rate = TargetRate, !.frames = RateCv(a.frames, a.rate, TargetRate)]

\* Mutant: a clip of exactly 200 ms is faded as well.
NeedsFade_AtThreshold(a) == SegLen(a) >= FadeThresholdMs

\* if len(audio) > 200
NeedsFade(a) == SegLen(a) > FadeThresholdMs

\* fade_in and fade_out put the clip together from slices taken at whole
\* milliseconds: frames past _parse_position(len) are dropped, frames short of
\* it are filled with silence.  fade_out copies int(end_frame - start_frame)
\* frames, a difference of doubles that for these lengths (of 201..3600 ms,
\* at 44100 Hz) comes out one frame short.
FadeDropsFrame ==
    {204 + 5 * i : i \in 0..6} \cup {373 + 5 * i : i \in 0..9} \cup
    {746 + 5 * i : i \in 0..9} \cup {1487 + 5 * i : i \in 0..9} \cup
    {2974 + 5 * i : i \in 0..9}

FadedFrames(a) ==
    ParsePosition(SegLen(a), a.rate) - (IF SegLen(a) \in FadeDropsFrame THEN 1 ELSE 0)

\* audio = audio.fade_in(50).fade_out(50)
Fade(a) ==
    IF NeedsFade(a) THEN [a EXCEPT !.faded = TRUE, !.frames = FadedFrames(a)] ELSE a

NormalizeStep ==
    /\ stage = "normalize"
    /\ audio' = Normalize(audio)
    /\ stage' = "truncate"
    /\ UNCHANGED <<voiceVars, dlVars, cfgVars, phase, idx, cur, temp, tries, outdir, log, attempts, fault>>

\* Mutant: the levels are normalized (again) after the truncation.
TruncateStep_ThenNormalize ==
    /\ stage = "truncate"
    /\ audio' = Normalize(Truncate(audio, LimitMs(cur)))
    /\ IF NeedsTruncation(audio, LimitMs(cur)) THEN Emit(cur, "Truncated") ELSE UNCHANGED log
    /\ stage' = "set_channels"
    /\ UNCHANGED <<voiceVars, dlVars, cfgVars, phase, idx, cur, temp, tries, outdir, attempts, fault>>

TruncateStep ==
    /\ stage = "truncate"
    /\ audio' = Truncate(audio, LimitMs(cur))
    /\ IF NeedsTruncation(audio, LimitMs(cur)) THEN Emit(cur, "Truncated") ELSE UNCHANGED log
    /\ stage' = "set_channels"
    /\ UNCHANGED <<voiceVars, dlVars, cfgVars, phase, idx, cur, temp, tries, outdir, attempts, fault>>

SetChannelsStep ==
    /\ stage = "set_channels"
    /\ audio' = SetChannels(audio)
    /\ stage' = "set_frame_rate"
    /\ UNCHANGED <<voiceVars, dlVars, cfgVars, phase, idx, cur, temp, tries, outdir, log, attempts, fault>>

SetFrameRateStep ==
    /\ stage = "set_frame_rate"
    /\ audio' = SetFrameRate(audio)
    /\ stage' = "fade"
    /\ UNCHANGED <<voiceVars, dlVars, cfgVars, phase, idx, cur, temp, tries, outdir, log, attempts, fault>>

FadeStep ==
    /\ stage = "fade"
    /\ audio' = Fade(audio)
    /\ stage' = "export"
    /\ UNCHANGED <<voiceVars, dlVars, cfgVars, phase, idx, cur, temp, tries, outdir, log, attempts, fault>>

\* A post-processing call raises; except Exception prints it.
PostProcessRaises ==
    /\ stage \in PostStages
    /\ Inject("postprocess")
    /\ Fail("ErrorGenerating")
    /\ UNCHANGED <<voiceVars, dlVars, cfgVars, phase, idx, cur, temp, audio, tries, outdir, attempts>>

\* Mutant: output_path does not depend on filename; every cue writes one file.
Exported_OneName(dir, k, a) == [dir EXCEPT ![1] = WavFile(a)]

\* audio.export(output_path, format="wav") and the "Saved" line.
Exported(dir, k, a) == [dir EXCEPT ![k] = WavFile(a)]

Export ==
    /\ stage = "export"
    /\ outdir' = Exported(outdir, cur, audio)
    /\ Emit(cur, "Saved")
    /\ stage' = "finally"
    /\ UNCHANGED <<voiceVars, dlVars, cfgVars, phase, idx, cur, temp, audio, tries, attempts, fault>>

\* export raises before the output file is opened for writing.
ExportFailsOpen ==
    /\ stage = "export"
    /\ Inject("export_open")
    /\ Fail("ErrorGenerating")
    /\ UNCHANGED <<voiceVars, dlVars, cfgVars, phase, idx, cur, temp, audio, tries, outdir, attempts>>

\* export opens output_path with 'wb+' and raises while writing into it: the
\* file is left as far as it was written; nothing removes it.
ExportFailsWrite ==
    /\ stage = "export"
    /\ Inject("export_write")
    /\ outdir' = [outdir EXCEPT ![cur] = PartialFile]
    /\ Fail("ErrorGenerating")
    /\ UNCHANGED <<voiceVars, dlVars, cfgVars, phase, idx, cur, temp, audio, tries, attempts>>

\* finally: if os.path.exists(temp_path): os.unlink(temp_path)
Unlinked(t) == "absent"

\* Mutant: the unlink sits at the end of the try block, not in finally: it
\* runs only when nothing went wrong.
FinallyUnlink_InTry ==
    /\ stage = "finally" /\ temp # "absent"
    /\ temp' = IF fault[cur] = "none" THEN "absent" ELSE temp
    /\ stage' = "idle"
    /\ UNCHANGED <<voiceVars, dlVars, cfgVars, phase, idx, cur, audio, tries, outdir, log, attempts, fault>>

FinallyUnlink ==
    /\ stage = "finally" /\ temp # "absent"
    /\ temp' = Unlinked(temp)
    /\ stage' = "idle"
    /\ UNCHANGED <<voiceVars, dlVars, cfgVars, phase, idx, cur, audio, tries, outdir, log, attempts, fault>>

FinallyNothing ==
    /\ stage = "finally" /\ temp = "absent"
    /\ stage' = "idle"
    /\ UNCHANGED <<voiceVars, dlVars, cfgVars, phase, idx, cur, temp, audio, tries, outdir, log, attempts, fault>>

\* os.unlink raises inside the finally block: nothing in generate_audio_file
\* or in the for loop catches it; main()'s except prints it and exits 1.
FinallyUnlinkRaises ==
    /\ stage = "finally" /\ temp # "absent"
    /\ stage' = "raised"
    /\ phase' = "exit1"
    /\ Emit(0, "Error")
    /\ UNCHANGED <<voiceVars, dlVars, cfgVars, idx, cur, temp, audio, tries, outdir, attempts, fault>>

Next ==
    \/ CallNextCue \/ BatchReport \/ CallProbe \/ ProbeReport
    \/ SynthesizeOk \/ SynthesizeBadFile \/ SynthesizeRaises \/ SayFails
    \/ CheckFile \/ Load \/ LoadAlt
    \/ NormalizeStep \/ TruncateStep \/ SetChannelsStep \/ SetFrameRateStep \/ FadeStep
    \/ PostProcessRaises
    \/ Export \/ ExportFailsOpen \/ ExportFailsWrite
    \/ FinallyUnlink \/ FinallyNothing \/ FinallyUnlinkRaises

Spec == Init /\ [][Next]_vars

\* Runs in which the backend, the decoder, the library and the file system
\* do what they are asked, over every clip of AllNatives.
FaultFreeNext ==
    \/ CallNextCue \/ BatchReport \/ CallProbe \/ ProbeReport
    \/ SynthesizeOk \/ CheckFile \/ Load \/ LoadAlt
    \/ NormalizeStep \/ TruncateStep \/ SetChannelsStep \/ SetFrameRateStep \/ FadeStep
    \/ Export \/ FinallyUnlink

FaultFreeSpec == FaultFreeInit /\ [][FaultFreeNext]_vars


(***************************************************************************)
(* scripts/download_models.py.  A file under assets/models is "absent",    *)
(* "empty" (zero bytes), "old" (there before the run), "new" (downloaded   *)
(* by this run), "partial" (a download that broke off) or "mock" (written  *)
(* by create_mock_models).                                                 *)
(***************************************************************************)
Exists(f) == f # "absent"

\* main() after assets_dir.mkdir: what an earlier run or an interrupted
\* download left in the directory.
DownloadInit ==
    /\ GenRest /\ VoiceRest
    /\ modelFiles \in [ModelKeys -> {"absent", "empty", "old"}]
    /\ dlStage = "loop" /\ dlIdx = 0 /\ success_count = 0
    /\ obtained = [m \in ModelKeys |-> "none"]

\* success_count += 1, with what the file held at that moment.
Counted(m, f) ==
    /\ success_count' = success_count + 1
    /\ obtained' = [obtained EXCEPT ![m] = f]

\* for model_name, model_info in MODELS.items(): if filepath.exists()
DlNextModel ==
    /\ dlStage = "loop" /\ dlIdx < total_count
    /\ dlIdx' = dlIdx + 1
    /\ dlStage' = IF Exists(modelFiles[dlIdx + 1]) THEN "ask" ELSE "download"
    /\ UNCHANGED <<genVars, voiceVars, modelFiles, success_count, obtained>>

\* response != 'y': "Skipping...", success_count += 1, continue
DlSkip ==
    /\ dlStage = "ask"
    /\ Counted(dlIdx, modelFiles[dlIdx])
    /\ dlStage' = "loop"
    /\ UNCHANGED <<genVars, voiceVars, modelFiles, dlIdx>>

\* response == 'y'
DlDownloadAnyway ==
    /\ dlStage = "ask"
    /\ dlStage' = "download"
    /\ UNCHANGED <<genVars, voiceVars, modelFiles, dlIdx, success_count, obtained>>

\* input() raises (no terminal): the error leaves main(); exit status 1.
DlInputRaises ==
    /\ dlStage = "ask"
    /\ dlStage' = "raised"
    /\ UNCHANGED <<genVars, voiceVars, modelFiles, dlIdx, success_count, obtained>>

\* download_file returns True: urlretrieve wrote what the server sent, which
\* may be nothing; the file is counted if it exists when main() looks.
DownloadReturnsTrue ==
    /\ dlStage = "download"
    /\ \E f \in {"new", "empty", "absent"} :
          /\ modelFiles' = [modelFiles EXCEPT ![dlIdx] = f]
          /\ IF Exists(f) THEN Counted(dlIdx, f) ELSE UNCHANGED <<success_count, obtained>>
    /\ dlStage' = "loop"
    /\ UNCHANGED <<genVars, voiceVars, dlIdx>>

\* download_file returns False: urlretrieve raised before it opened the
\* file, right after, or while it was writing.
DownloadReturnsFalse ==
    /\ dlStage = "download"
    /\ \E f \in {modelFiles[dlIdx], "empty", "partial"} :
          modelFiles' = [modelFiles EXCEPT ![dlIdx] = f]
    /\ dlStage' = "loop"
    /\ UNCHANGED <<genVars, voiceVars, dlIdx, success_count, obtained>>

\* create_mock_models: every file of mock_models is opened 'wb' and written.
CreateMockModels(files) == [m \in ModelKeys |-> "mock"]

\* Mutant: the mock models are created only when nothing was obtained.
NeedsMocks_OnlyWhenNone(count) == count = 0

\* if success_count == 0: ... elif success_count < total_count: ...
NeedsMocks(count) == count = 0 \/ count < total_count

\* The summary after the loop; main() returns success_count == total_count.
DlSummary ==
    /\ dlStage = "loop" /\ dlIdx = total_count
    /\ modelFiles' = IF NeedsMocks(success_count) THEN CreateMockModels(modelFiles)
                                                   ELSE modelFiles
    /\ dlStage' = "done"
    /\ UNCHANGED <<genVars, voiceVars, dlIdx, success_count, obtained>>

DownloadNext ==
    \/ DlNextModel \/ DlSkip \/ DlDownloadAnyway \/ DlInputRaises
    \/ DownloadReturnsTrue \/ DownloadReturnsFalse \/ DlSummary

DownloadSpec == DownloadInit /\ [][DownloadNext]_vars


(***************************************************************************)
(* TTSAudioGenerator.__init__: the choice of the voice.  A voice name is   *)
(* the sequence of its characters.                                         *)
(***************************************************************************)
UpperCase == <<"A", "B", "C", "D", "E", "F", "G", "H", "I", "J", "K", "L", "M",
               "N", "O", "P", "Q", "R", "S", "T", "U", "V", "W", "X", "Y", "Z">>
LowerCase == <<"a", "b", "c", "d", "e", "f", "g", "h", "i", "j", "k", "l", "m",
               "n", "o", "p", "q", "r", "s", "t", "u", "v", "w", "x", "y", "z">>

\* str.lower(), character by character.
LowerChar(c) ==
    IF \E i \in DOMAIN UpperCase : UpperCase[i] = c
      THEN LowerCase[CHOOSE i \in DOMAIN UpperCase : UpperCase[i] = c]
      ELSE c
Lower(str) == [i \in DOMAIN str |-> LowerChar(str[i])]

\* sub in str
Contains(sub, str) ==
    \E i \in 1..(Len(str) - Len(sub) + 1) : SubSeq(str, i, i + Len(sub) - 1) = sub

female == <<"f", "e", "m", "a", "l", "e">>
zira == <<"z", "i", "r", "a">>

\* Mutant: the name is compared as it is, without lower().
Matches_CaseSensitive(name) == Contains(female, name) \/ Contains(zira, name)

\* 'female' in voice.name.lower() or 'zira' in voice.name.lower()
Matches(name) == Contains(female, Lower(name)) \/ Contains(zira, Lower(name))

\* for voice in voices: if ...: setProperty('voice', voice.id); break
\* else: setProperty('voice', voices[0].id)
RECURSIVE PickVoice(_, _)
PickVoice(vs, i) ==
    IF i > Len(vs) THEN vs[1].id
    ELSE IF Matches(vs[i].name) THEN vs[i].id
    ELSE PickVoice(vs, i + 1)

\* The voices an engine may report.
VoicePool ==
    { [id |-> "voice.david",  name |-> <<"D", "a", "v", "i", "d">>],
      [id |-> "voice.male",   name |-> <<"M", "a", "l", "e">>],
      [id |-> "voice.zira",   name |-> <<"Z", "i", "r", "a">>],
      [id |-> "voice.hazira", name |-> <<"H", "A", "Z", "I", "R", "A">>],
      [id |-> "voice.female", name |-> <<"e", "n", "+", "F", "e", "M", "a", "l", "e", "2">>] }
VoiceLists == UNION { [1..n -> VoicePool] : n \in 0..MaxVoices }

\* pyttsx3.init() has returned; the voice has not been chosen yet.
VoiceInit ==
    /\ GenRest /\ DlRest
    /\ voices \in VoiceLists
    /\ voice = "unset"

\* if voices: ... ; with no voices the engine keeps its default voice.
SelectVoice ==
    /\ voice = "unset"
    /\ voice' = IF voices = <<>> THEN "default" ELSE PickVoice(voices, 1)
    /\ UNCHANGED <<genVars, dlVars, voices>>

VoiceNext == SelectVoice

VoiceSpec == VoiceInit /\ [][VoiceNext]_vars


(***************************************************************************)
(* Properties.                                                             *)
(***************************************************************************)
CatalogueKeys == 1..NumCues
Written(k) == outdir[k].kind = "complete"
Saved(k) == \E n \in 1..Len(log) : log[n] = [key |-> k, line |-> "Saved"]
\* generate_audio_file(k) has been called and has returned.
Returned(k) == cur = k /\ stage = "idle"

\* C1: every clip generate_audio_file exported for a cue with duration limit d
\* is at most d*1000 ms long, in the whole milliseconds len() counts (the
\* measure the code compares with the limit).
C1_DurationWithinLimit ==
    \A k \in Keys : Written(k) => FileMs(outdir[k]) <= LimitMs(k)

\* A clip decoded longer than its cue's limit has been exported, by the
\* command generator, at exactly the limit.
C1_Witness ==
    \E k \in CatalogueKeys :
        /\ Written(k) /\ backend = "command"
        /\ SegLen(Decoded) > LimitMs(k)
        /\ FileMs(outdir[k]) = LimitMs(k)

\* C2: every exported file is mono at 44100 Hz, whatever was decoded and
\* whether or not the clip was truncated or faded.
C2_MonoAt44100 ==
    \A k \in Keys : Written(k) => outdir[k].ch = 1 /\ outdir[k].rate = TargetRate

\* A stereo 48 kHz clip has been exported, truncated and faded, by the
\* engine generator.
C2_Witness ==
    \E k \in CatalogueKeys :
        /\ Written(k) /\ backend = "engine"
        /\ native.ch = 2 /\ native.rate = 48000
        /\ SegLen(Decoded) > LimitMs(k)
        /\ outdir[k].faded


\* The for loop of generate_all_audio_cues has taken every entry and the
\* last call has returned.
BatchOver ==
    /\ ~testOnly
    /\ \/ phase = "cues" /\ idx = NumCues /\ stage = "idle"
       \/ phase \in {"probe", "exit0"}

\* main() has ended, normally or through its except clause.
RunOver == phase \in {"exit0", "exit1"}

\* C3: in a full run every catalogue entry is attempted exactly once, in
\* catalogue order: the calls made so far are the catalogue's first entries
\* in order, and when the run is over every entry has had its call.
C3_EveryCueAttemptedOnce ==
    ~testOnly =>
        /\ \A n \in 1..Len(attempts) : attempts[n] = n
        /\ RunOver => \A k \in CatalogueKeys : \E n \in 1..Len(attempts) : attempts[n] = k

\* The ways the synthesis step fails: the backend raises, reports a non-zero
\* status, or leaves the file missing or zero-length.
SynthesisFaults == {"raise", "status", "absent", "empty"}

\* Synthesis failed for cue i and nothing failed for any other catalogue cue.
OnlySynthesisFailedAt(i) ==
    /\ fault[i] \in SynthesisFaults
    /\ \A j \in CatalogueKeys \ {i} : fault[j] = "none"

\* C4 as stated: with synthesis failing for exactly one cue i and nothing
\* else failing, after the batch N-1 cues have succeeded, each with its
\* output file, and no output file exists for cue i.
C4_NoFileForFailedCue ==
    \A i \in CatalogueKeys :
        (BatchOver /\ OnlySynthesisFailedAt(i)) =>
            /\ Cardinality({j \in CatalogueKeys : Saved(j)}) = NumCues - 1
            /\ \A j \in CatalogueKeys \ {i} : Saved(j) /\ Written(j)
            /\ outdir[i].kind = "absent"

\* C4 amended: ... and no output file is written for cue i: what the output
\* directory holds under cue i's name is what it held before the run.
C4_FailedCueWritesNothing ==
    \A i \in CatalogueKeys :
        (BatchOver /\ OnlySynthesisFailedAt(i)) =>
            /\ Cardinality({j \in CatalogueKeys : Saved(j)}) = NumCues - 1
            /\ \A j \in CatalogueKeys \ {i} : Saved(j) /\ Written(j)
            /\ ~Saved(i) /\ outdir[i] = dir0[i]

\* The batch is over, synthesis failed for one cue only, and the file an
\* earlier run left under that cue's name is still there.
C4_Witness ==
    \E i \in CatalogueKeys :
        /\ BatchOver /\ OnlySynthesisFailedAt(i)
        /\ outdir[i].kind = "earlier"
        /\ \A j \in CatalogueKeys \ {i} : Written(j)


Logged(k, line) == \E n \in 1..Len(log) : log[n] = [key |-> k, line |-> line]

\* generate_audio_file(k) is over: it returned, or an error left it.
Finished(k) == cur = k /\ stage \in {"idle", "raised"}

\* C5 as stated: whenever generate_audio_file is over for a cue, however it
\* ended, the cue's temporary file no longer exists.
C5_NoTempFileLeft ==
    \A k \in Keys : Finished(k) => temp = "absent"

\* C5 amended: whenever generate_audio_file returns (after success, an early
\* return, or an exception the except clause caught) the temporary file no
\* longer exists; a temporary file is left only where os.unlink itself failed.
C5_TempRemovedOnReturn ==
    \A k \in Keys :
        /\ Returned(k) => temp = "absent"
        /\ (Finished(k) /\ temp # "absent") => (stage = "raised" /\ Logged(0, "Error"))

\* A cue whose post-processing raised has returned, its temporary file gone.
C5_Witness ==
    \E k \in Keys : Returned(k) /\ fault[k] = "postprocess" /\ temp = "absent"

\* C6: a cue that ended in failure has left no partially written output file.
C6_NoPartialOutput ==
    \A k \in Keys : (Finished(k) /\ ~Saved(k)) => outdir[k].kind # "partial"

\* C7: a failing delete of the temporary file does not leave
\* generate_audio_file, and no error of a cue leaves the batch loop.
C7_CleanupFailureContained ==
    stage # "raised" /\ phase # "exit1"

\* C8: with either backend, once the primary decode has failed a fallback
\* decode is made (two decode calls in all) before the cue goes on or fails,
\* and a decode failure ends the current cue only.
C8_OneFallbackDecode ==
    \A k \in Keys :
        (cur = k /\ Logged(k, "ErrorLoading") /\ stage # "load_alt") =>
            /\ tries = 2
            /\ phase # "exit1"

\* The synthesis failures C9 names: non-zero status, file missing, file empty.
ReportedSynthesisFaults == {"status", "absent", "empty"}

\* C9: a cue whose synthesis failed gets no decode, no post-processing and
\* no export, and the batch is not aborted.
C9_SynthesisFailureEndsCueOnly ==
    \A k \in Keys :
        (cur = k /\ fault[k] \in ReportedSynthesisFaults) =>
            /\ tries = 0 /\ audio = NoAudio
            /\ outdir[k] = dir0[k] /\ ~Saved(k)
            /\ phase # "exit1"

\* What generate_all_audio_cues returns: it has no return statement.
BatchResult == "None"

ErrorLines == {"ErrorGenerating", "ErrorSay", "ErrorTTS", "ErrorLoading", "ErrorAlternative"}
SavedCount(k) == Cardinality({n \in 1..Len(log) : log[n] = [key |-> k, line |-> "Saved"]})
\* The keys of the "Generating" lines, in the order printed.
Announced == SelectSeq(log, LAMBDA l : l.line = "Generating")

\* C10: after the batch generate_all_audio_cues yields its outcomes and
\* counts, and a cue counts as a success exactly if its file was written in
\* this run.
C10_BatchYieldsOutcomesAndCounts ==
    BatchOver =>
        /\ BatchResult # "None"
        /\ \A k \in CatalogueKeys : Saved(k) <=> Written(k)

\* What the code does yield after the batch, the printed lines: one
\* "Generating" line per cue in catalogue order; a cue has one "Saved" line if
\* its file was written in this run and none otherwise, and then it has an
\* error line.
LogTellsOutcomes ==
    BatchOver =>
        /\ \A k \in CatalogueKeys : Announced[k].key = k
        /\ \A k \in CatalogueKeys :
              /\ SavedCount(k) = (IF Written(k) THEN 1 ELSE 0)
              /\ ~Written(k) => \E e \in ErrorLines : Logged(k, e)

\* The calls of generate_audio_file made for the quality probe.
ProbeCalls == {n \in 1..Len(attempts) : attempts[n] = ProbeKey}

\* C11: in a full run the quality probe is called only after every catalogue
\* cue has finished, has run exactly once when the run is over, with the
\* 3-second limit through generate_audio_file, and while it runs every
\* catalogue cue's file stays as that cue left it.
C11_ProbeOnceAfterBatch ==
    ~testOnly =>
        /\ \A n \in ProbeCalls : n = NumCues + 1
        /\ RunOver => Cardinality(ProbeCalls) = 1
        /\ LimitMs(ProbeKey) = ProbeLimitMs
        /\ cur = ProbeKey => \A k \in CatalogueKeys : Written(k) <=> Saved(k)

\* C12 as stated: after the downloader's main() has completed, each of the
\* three model files exists and is non-empty.
C12_EveryModelFileNonEmpty ==
    dlStage = "done" => \A m \in ModelKeys : modelFiles[m] \notin {"absent", "empty"}

\* C12 amended: after the downloader's main() has completed, each of the
\* three model files exists (it may be empty or no model).
C12_EveryModelFileExists ==
    dlStage = "done" => \A m \in ModelKeys : Exists(modelFiles[m])

\* main() has completed with one model obtained and another, whose download
\* failed, replaced by a mock file.
C12_Witness ==
    /\ dlStage = "done"
    /\ \E m, n \in ModelKeys :
          obtained[m] # "none" /\ obtained[n] = "none" /\ modelFiles[n] = "mock"

\* C13: when some but not all models were obtained, create_mock_models
\* leaves every model file that was downloaded, or found and kept, as it was.
C13_ObtainedFilesKept ==
    dlStage = "done" =>
        \A m \in ModelKeys : obtained[m] # "none" => modelFiles[m] = obtained[m]

\* The buffer of cue k after each stage, each computed from the stage before.
AfterNormalize == Normalize(Decoded)
AfterTruncate(k) == Truncate(AfterNormalize, LimitMs(k))
AfterSetChannels(k) == SetChannels(AfterTruncate(k))
AfterSetFrameRate(k) == SetFrameRate(AfterSetChannels(k))
AfterFade(k) == Fade(AfterSetFrameRate(k))

\* C14: within a cue the stages run in the order synthesize, decode,
\* normalize, truncate, mono, 44100 Hz, fade, export: each stage starts from
\* the result of the stage before, normalization takes its peak over the
\* whole decoded buffer, and what is exported is the result of the last stage.
C14_StagesInFixedOrder ==
    /\ stage \in {"load", "load_alt"} => temp # "empty" /\ audio = NoAudio
    /\ stage = "normalize" => tries >= 1 /\ audio = Decoded
    /\ stage = "truncate" => audio = AfterNormalize /\ audio.peakOver = native.frames
    /\ stage = "set_channels" => audio = AfterTruncate(cur)
    /\ stage = "set_frame_rate" => audio = AfterSetChannels(cur)
    /\ stage = "fade" => audio = AfterSetFrameRate(cur)
    /\ stage = "export" => audio = AfterFade(cur)
    /\ \A k \in Keys : Written(k) =>
          outdir[k] = WavFile(AfterFade(k)) /\ AfterFade(k).peakOver = native.frames

\* A clip longer than its limit, not at 44100 Hz, has gone through every
\* stage and been exported, normalized over more frames than were kept.
C14_Witness ==
    \E k \in CatalogueKeys :
        /\ Written(k) /\ native.rate # TargetRate /\ native.ch = 2
        /\ AfterTruncate(k).frames < native.frames
        /\ outdir[k].faded

\* C15: after the truncate stage a buffer that was longer than the cue's
\* limit (in the whole milliseconds of len()) holds exactly the first
\* limit*1000 ms and is otherwise as before; a buffer at or under the limit,
\* or truncated with no limit, is unchanged.
C15_TruncatedToLimit ==
    stage = "set_channels" =>
        LET before == Normalize(Decoded)
            limit == LimitMs(cur)
        IN  /\ IF SegLen(before) > limit
                  THEN /\ SegLen(audio) = limit
                       /\ 1000 * audio.frames = limit * audio.rate
                       /\ audio = [before EXCEPT !.frames = audio.frames]
                  ELSE audio = before
            /\ Truncate(before, NoLimit) = before

\* A 3.0 s clip has come out of the truncate stage of a cue with limit 1.0
\* at exactly 1000 ms.
C15_Witness ==
    /\ stage = "set_channels" /\ LimitMs(cur) = 1000
    /\ SegLen(Decoded) = 3000 /\ SegLen(audio) = 1000

\* C16: the fade is applied exactly to the clips that are longer than 200 ms
\* (in the whole milliseconds of len()) after truncation and resampling; a
\* clip of 200 ms or less is exported as it was before the fade stage, and
\* the fade does not change a clip's duration in milliseconds.
C16_FadeOnlyAboveThreshold ==
    /\ stage = "export" =>
          LET before == AfterSetFrameRate(cur)
          IN  /\ audio.faded <=> SegLen(before) > FadeThresholdMs
              /\ SegLen(before) <= FadeThresholdMs => audio = before
              /\ SegLen(audio) = SegLen(before)
    /\ \A k \in Keys : Written(k) =>
          /\ outdir[k].faded <=> FileMs(outdir[k]) > FadeThresholdMs
          /\ FileMs(outdir[k]) = SegLen(AfterSetFrameRate(k))

\* A clip of exactly 200 ms has been exported without a fade, and the run's
\* backend renders more than 200 ms.
C16_Witness ==
    \E k \in CatalogueKeys :
        /\ Written(k) /\ ~outdir[k].faded
        /\ FileMs(outdir[k]) = FadeThresholdMs
        /\ 1000 * native.frames > FadeThresholdMs * native.rate

\* C17 as stated: whenever a cue is in post-processing or export, its
\* temporary file has already been removed.
C17_TempGoneAfterDecoding ==
    stage \in PostStages \cup {"export"} => temp = "absent"

\* C17 amended: the temporary file is not removed on the way out of
\* decoding: whenever a cue is in post-processing or export the file still
\* exists, and it is gone once generate_audio_file has returned.
C17_TempKeptUntilFinally ==
    /\ stage \in PostStages \cup {"export"} => temp \in {"wav", "other"}
    /\ \A k \in Keys : Returned(k) => temp = "absent"

\* A cue is about to be exported with its temporary file still there.
C17_Witness ==
    stage = "export" /\ cur \in CatalogueKeys /\ temp = "other" /\ audio.faded

\* C18: "All audio files generated successfully!" is printed only when
\* every catalogue cue has produced its output file.
C18_BannerOnlyWhenAllGenerated ==
    Logged(0, "AllGenerated") => \A k \in CatalogueKeys : Written(k)

\* The ways a cue fails at synthesis or at decode: the backend raises,
\* reports a non-zero status, leaves no file or an empty one, or leaves a
\* file no decode call can read.
SynthesisOrDecodeFaults == SynthesisFaults \cup {"garbage"}

\* C20: a cue that failed at synthesis or at decode has left the output
\* directory as it was: the file under its own name is what it was before
\* the run, the files of the cues still to come are untouched, and the
\* files of the cues before it are as those cues left them.
C20_FailedCueLeavesDirectory ==
    \A k \in Keys :
        fault[k] \in SynthesisOrDecodeFaults =>
            /\ outdir[k] = dir0[k] /\ ~Saved(k)
            /\ cur = k => \A j \in Keys :
                  /\ j > k => outdir[j] = dir0[j]
                  /\ j < k => (Written(j) <=> Saved(j))

\* A cue of the engine generator whose file no decode call could read has
\* returned, and the file an earlier run wrote under its name is still there.
C20_Witness ==
    \E k \in CatalogueKeys :
        /\ Returned(k) /\ fault[k] = "garbage" /\ tries = 2
        /\ outdir[k] = EarlierFile

\* The preferred names, and a match by substring whatever the case.
PreferredNames == {female, zira}
SameIgnoringCase(a, b) ==
    Len(a) = Len(b) /\ \A i \in DOMAIN a : LowerChar(a[i]) = LowerChar(b[i])
NameMatches(name) ==
    \E p \in PreferredNames : \E i \in 1..(Len(name) - Len(p) + 1) :
        SameIgnoringCase(SubSeq(name, i, i + Len(p) - 1), p)
Matching(vs) == {i \in DOMAIN vs : NameMatches(vs[i].name)}

\* C19: for a non-empty voice list the voice selected is the first voice, in
\* list order, whose name contains a preferred name whatever the case, and
\* the first voice of the list when none does; it is one voice of the list.
C19_FirstMatchingVoice ==
    (voice # "unset" /\ voices # <<>>) =>
        /\ \E i \in DOMAIN voices : voice = voices[i].id
        /\ IF Matching(voices) = {}
              THEN voice = voices[1].id
              ELSE \E i \in Matching(voices) :
                      /\ \A j \in Matching(voices) : i <= j
                      /\ voice = voices[i].id

\* The second of three voices, matching in mixed case, has been selected
\* over a later matching voice and an earlier voice that does not match.
C19_Witness ==
    /\ Len(voices) = 3 /\ Matching(voices) = {2, 3}
    /\ voices[2].name # Lower(voices[2].name) /\ voices[3].id # voices[2].id
    /\ voice = voices[2].id

====
